---- MODULE Spec2Model ----
(***************************************************************************)
(* DocumentCache (src/unnamed/part_002): a whole-document query cache.     *)
(* The store is a two-level map  query hash -> variables key -> result,    *)
(* with a __META record; watchers are kept per key in insertion-ordered    *)
(* sets of watch-options objects; operation subscribers in an array.       *)
(* JavaScript objects are references: this.data is a reference into a heap *)
(* of store objects, so that restore(x) / extract() alias as the code does.*)
(***************************************************************************)
EXTENDS Integers, Sequences, FiniteSets, Bags, TLC

VARIABLES
    heap,                     \* store objects by identity
    data,                     \* this.data of each cache: a reference into heap
    watches,                  \* this.watches of each cache
    queryToQueryCacheKeyMap,  \* this.queryToQueryCacheKeyMap of each cache
    operationSubscriptions,   \* this.operationSubscriptions.writeQuery of each cache
    watchUnsubs,              \* unsubscribe closures returned by watch, not yet invoked
    subUnsubs,                \* unsubscribe closures returned by subscribe, not yet invoked
    subscribed,               \* history: subscribe calls per callback since one of its unsubscribe functions ran
    lastWritten,              \* history: last result written per key since construction/reset/restore
    log                       \* the last call: its arguments, what it returned, the callbacks it invoked

vars == <<heap, data, watches, queryToQueryCacheKeyMap, operationSubscriptions,
          watchUnsubs, subUnsubs, subscribed, lastWritten, log>>

-----------------------------------------------------------------------------
(* Bounds *)

\* most entries the operationSubscriptions.writeQuery array is let grow to
MaxSubs == 3
\* most not-yet-invoked unsubscribe closures kept per watch-options object and cache
MaxHandles == 2

-----------------------------------------------------------------------------
(* Values *)

Caches == {"A", "B"}

\* A result is a GraphQL data payload: an object (ref > 0: its identity, c: its
\* content) or null; undefined is what a missing property reads as.
R1a  == [c |-> "R1", ref |-> 1]
R1b  == [c |-> "R1", ref |-> 2]
R2   == [c |-> "R2", ref |-> 3]
Null == [c |-> "null", ref |-> 0]
Undefined == [c |-> "undefined", ref |-> 0]
\* the placeholder {} that diff returns when incomplete
EmptyObject == [c |-> "{}", ref |-> 9]

FalsyContents == {"null", "undefined"}

\* JavaScript truthiness, as tested by `!data` and `if (result)`
Truthy(x) == x.c \notin FalsyContents

\* @wry/equality equal(a, b): deep equality, blind to object identity
equal(a, b) == a.c = b.c

\* A DocumentNode: an object (ref) holding the selected field names of `jobs`.
Q1 == [ref |-> 1, fields |-> <<"id">>]
Q2 == [ref |-> 2, fields |-> <<"id", "__typename">>]
Q3 == [ref |-> 3, fields |-> <<"title">>]

Queries == {Q1, Q2, Q3}

\* Variables: undefined, or a map given as its properties in insertion order.
NoVariables == <<"undefined">>
EmptyMap    == <<"map">>
MapAUndef   == <<"map", <<"a", "undefined">> >>

\* an order on property names, as Object.keys(...).sort() orders them
NameRank(n) == CASE n = "a" -> 1 [] n = "id" -> 2 [] OTHER -> 3

-----------------------------------------------------------------------------
(* Keys *)

\* InMemoryCache.transformDocument: adds __typename to a selection that lacks it
transformDocument(document) ==
    IF \E i \in 1..Len(document.fields) : document.fields[i] = "__typename"
    THEN document.fields
    ELSE Append(document.fields, "__typename")

\* sha256().update(JSON.stringify(...)).digest("hex"); the digest is taken to be
\* collision-free, so it is the text it digests under a tag
Sha256Hex(text) == <<"sha256">> \o text

\* a key computed from the document as given, without transformDocument
makeQueryCacheKeyUnnormalized(memo, query) ==
    IF query \in DOMAIN memo THEN memo[query] ELSE Sha256Hex(query.fields)

\* makeQueryCacheKey: the memoized hash of the reference, else the computed one
makeQueryCacheKey(memo, query) ==
    IF query \in DOMAIN memo THEN memo[query] ELSE Sha256Hex(transformDocument(query))

\* the memo after makeQueryCacheKey(query)
MemoAfter(memo, query) ==
    IF query \in DOMAIN memo
    THEN memo
    ELSE (query :> Sha256Hex(transformDocument(query))) @@ memo

\* the properties fast-json-stable-stringify writes: those whose value is not undefined
RECURSIVE DefinedProps(_)
DefinedProps(props) ==
    IF props = <<>> THEN <<>>
    ELSE IF Head(props)[2] = "undefined" THEN DefinedProps(Tail(props))
    ELSE <<Head(props)>> \o DefinedProps(Tail(props))

\* insertion of one property into a list sorted by name
RECURSIVE InsertSorted(_, _)
InsertSorted(p, sorted) ==
    IF sorted = <<>> THEN <<p>>
    ELSE IF NameRank(p[1]) <= NameRank(Head(sorted)[1]) THEN <<p>> \o sorted
    ELSE <<Head(sorted)>> \o InsertSorted(p, Tail(sorted))

\* Object.keys(node).sort()
RECURSIVE SortProps(_)
SortProps(props) ==
    IF props = <<>> THEN <<>> ELSE InsertSorted(Head(props), SortProps(Tail(props)))

RECURSIVE Flatten(_)
Flatten(props) ==
    IF props = <<>> THEN <<>> ELSE Head(props) \o Flatten(Tail(props))

\* makeVariablesCacheKey: fastStringify(variables), used as a property name.
\* fastStringify(undefined) is undefined, which as a property name is "undefined".
makeVariablesCacheKey(variables) ==
    IF variables = NoVariables
    THEN <<"undefined">>
    ELSE <<"{">> \o Flatten(SortProps(DefinedProps(Tail(variables)))) \o <<"}">>

-----------------------------------------------------------------------------
(* The store object *)

MetaDocumentCache == [present |-> TRUE, hasType |-> TRUE, type |-> "DocumentCache"]
MetaInMemory      == [present |-> TRUE, hasType |-> FALSE, type |-> ""]
MetaAbsent        == [present |-> FALSE, hasType |-> FALSE, type |-> ""]

makeDocumentCacheObject == [META |-> MetaDocumentCache, entries |-> <<>>]
makeDocumentCacheWatches == <<>>
makeQueryToQueryCacheKeyMap == <<>>

isDocumentCache(shape) ==
    shape.META.present /\ shape.META.hasType /\ shape.META.type = "DocumentCache"

\* (map[k1] || {})[k2], undefined when missing
Lookup2(map, k1, k2) ==
    IF k1 \in DOMAIN map /\ k2 \in DOMAIN map[k1] THEN map[k1][k2] ELSE Undefined

\* map with map[k1][k2] = x, the inner map created when missing
Assign2(map, k1, k2, x) ==
    LET inner == IF k1 \in DOMAIN map THEN map[k1] ELSE <<>>
    IN  (k1 :> ((k2 :> x) @@ inner)) @@ map

\* getCachedData, given the keys: null when the entry is missing or falsy
getCachedData(store, queryCacheKey, variablesCacheKey) ==
    LET found == Lookup2(store.entries, queryCacheKey, variablesCacheKey)
    IN  IF ~Truthy(found) THEN Null ELSE found

\* read(options) on a cache whose store and memo are given
read(store, memo, query, variables) ==
    getCachedData(store, makeQueryCacheKey(memo, query), makeVariablesCacheKey(variables))

\* diff(options)
diff(store, memo, query, variables) ==
    LET result == read(store, memo, query, variables)
    IN  IF Truthy(result)
        THEN [result |-> result, complete |-> TRUE]
        ELSE [result |-> EmptyObject, complete |-> FALSE]

\* the store object after write(options)
StoreAfterWrite(store, queryCacheKey, variablesCacheKey, result) ==
    [store EXCEPT !.entries = Assign2(@, queryCacheKey, variablesCacheKey, result)]

-----------------------------------------------------------------------------
(* The heap of store objects *)

ObjIds == 1..Cardinality(Caches)

\* an unreferenced object, collected
Garbage == [META |-> MetaAbsent, entries |-> <<>>]

\* the reference a newly created object gets when cache c is about to hold it
NewRef(c) ==
    CHOOSE o \in ObjIds :
        /\ \A d \in Caches \ {c} : data[d] # o
        /\ \A p \in ObjIds : (p < o) => (\E d \in Caches \ {c} : data[d] = p)

\* the heap once cache c holds a new object, of reference o and content x;
\* what no cache references any more is collected
HeapNew(c, o, x) ==
    [p \in ObjIds |->
        IF p = o THEN x
        ELSE IF \E d \in Caches \ {c} : data[d] = p THEN heap[p]
        ELSE Garbage]

\* the heap once cache c holds the existing object o instead of its own
HeapShare(c, o) ==
    [p \in ObjIds |->
        IF p = o \/ (\E d \in Caches \ {c} : data[d] = p) THEN heap[p] ELSE Garbage]

\* extract(): the store object itself
extract(c) == heap[data[c]]

-----------------------------------------------------------------------------
(* The record of the last call *)

Call(op, c, qk, vk, arg, prev, ret, events) ==
    [op |-> op, cache |-> c, queryCacheKey |-> qk, variablesCacheKey |-> vk,
     arg |-> arg, prev |-> prev, ret |-> ret, events |-> events]

NoCall == Call("none", "", <<>>, <<>>, Undefined, Undefined, Undefined, <<>>)

\* the acknowledgement write returns: { __ref: "" }
EmptyRef == [c |-> "__ref", ref |-> 0]

-----------------------------------------------------------------------------
(* Initial state: two constructed caches *)

Init ==
    /\ data = [c \in Caches |-> IF c = "A" THEN 1 ELSE 2]
    /\ heap = [o \in ObjIds |-> makeDocumentCacheObject]
    /\ watches = [c \in Caches |-> makeDocumentCacheWatches]
    /\ queryToQueryCacheKeyMap = [c \in Caches |-> makeQueryToQueryCacheKeyMap]
    /\ operationSubscriptions = [c \in Caches |-> <<>>]
    /\ watchUnsubs = EmptyBag
    /\ subUnsubs = EmptyBag
    /\ subscribed = EmptyBag
    /\ lastWritten = [c \in Caches |-> [clean |-> TRUE, at |-> <<>>]]
    /\ log = NoCall

-----------------------------------------------------------------------------
(* Operations *)

\* read(options): looks the entry up; makeQueryCacheKey fills the memo
Read(c, query, variables) ==
    LET memo == queryToQueryCacheKeyMap[c]
        qk == makeQueryCacheKey(memo, query)
        vk == makeVariablesCacheKey(variables)
    IN  /\ queryToQueryCacheKeyMap' = [queryToQueryCacheKeyMap EXCEPT ![c] = MemoAfter(memo, query)]
        /\ log' = Call("read", c, qk, vk, Undefined, Undefined,
                       read(extract(c), memo, query, variables), <<>>)
        /\ UNCHANGED <<heap, data, watches, operationSubscriptions, watchUnsubs,
                       subUnsubs, subscribed, lastWritten>>

\* diff(options)
Diff(c, query, variables) ==
    LET memo == queryToQueryCacheKeyMap[c]
        qk == makeQueryCacheKey(memo, query)
        vk == makeVariablesCacheKey(variables)
        d  == diff(extract(c), memo, query, variables)
    IN  /\ queryToQueryCacheKeyMap' = [queryToQueryCacheKeyMap EXCEPT ![c] = MemoAfter(memo, query)]
        /\ log' = Call(IF d.complete THEN "diff:complete" ELSE "diff:incomplete",
                       c, qk, vk, Undefined, Undefined, d.result, <<>>)
        /\ UNCHANGED <<heap, data, watches, operationSubscriptions, watchUnsubs,
                       subUnsubs, subscribed, lastWritten>>

\* the history of writes after a write of result at (qk, vk)
Written(c, qk, vk, result) ==
    [lastWritten EXCEPT ![c].at = Assign2(@, qk, vk, result)]

\* a write that broadcasts as writeQuery does
WriteBroadcasting(c, query, variables, result) ==
    LET memo == queryToQueryCacheKeyMap[c]
        qk == makeQueryCacheKey(memo, query)
        vk == makeVariablesCacheKey(variables)
        set == IF qk \in DOMAIN watches[c] /\ vk \in DOMAIN watches[c][qk]
               THEN watches[c][qk][vk] ELSE <<>>
    IN  /\ heap' = [heap EXCEPT ![data[c]] = StoreAfterWrite(@, qk, vk, result)]
        /\ queryToQueryCacheKeyMap' = [queryToQueryCacheKeyMap EXCEPT ![c] = MemoAfter(memo, query)]
        /\ lastWritten' = Written(c, qk, vk, result)
        /\ log' = Call("write", c, qk, vk, result,
                       Lookup2(extract(c).entries, qk, vk), EmptyRef,
                       [i \in 1..Len(set) |->
                           [kind |-> "watch", target |-> set[i].id,
                            callback |-> set[i].callback,
                            arg |-> [result |-> result, complete |-> TRUE],
                            seen |-> result]])
        /\ UNCHANGED <<data, watches, operationSubscriptions, watchUnsubs, subUnsubs, subscribed>>

\* write(options): overwrites the entry, calls nobody
Write(c, query, variables, result) ==
    LET memo == queryToQueryCacheKeyMap[c]
        qk == makeQueryCacheKey(memo, query)
        vk == makeVariablesCacheKey(variables)
    IN  /\ heap' = [heap EXCEPT ![data[c]] = StoreAfterWrite(@, qk, vk, result)]
        /\ queryToQueryCacheKeyMap' = [queryToQueryCacheKeyMap EXCEPT ![c] = MemoAfter(memo, query)]
        /\ lastWritten' = Written(c, qk, vk, result)
        /\ log' = Call("write", c, qk, vk, result,
                       Lookup2(extract(c).entries, qk, vk), EmptyRef, <<>>)
        /\ UNCHANGED <<data, watches, operationSubscriptions, watchUnsubs, subUnsubs, subscribed>>

\* (this.watches[qk] || {})[vk] || new Set(): a Set iterates in insertion order
WatchesSet(registry, qk, vk) ==
    IF qk \in DOMAIN registry /\ vk \in DOMAIN registry[qk] THEN registry[qk][vk] ELSE <<>>

InSet(set, w) == \E i \in 1..Len(set) : set[i] = w

\* Set.add
SetAdd(set, w) == IF InSet(set, w) THEN set ELSE Append(set, w)

\* a delete that matches on the callback instead of the options object
SetDeleteByCallback(set, w) == SelectSeq(set, LAMBDA x : x.callback # w.callback)

\* Set.delete
SetDelete(set, w) == SelectSeq(set, LAMBDA x : x # w)

\* variablesLevel.forEach(w => w.callback({result: data, complete: true}));
\* seen is what the cache holds at the key while the callback runs
WatcherCalls(set, result, seen) ==
    [i \in 1..Len(set) |->
        [kind |-> "watch", target |-> set[i].id, callback |-> set[i].callback,
         arg |-> [result |-> result, complete |-> TRUE], seen |-> seen]]

\* this.operationSubscriptions.writeQuery.forEach(callback => callback(options))
SubscriberCalls(subs, options, seen) ==
    [i \in 1..Len(subs) |->
        [kind |-> "sub", target |-> i, callback |-> subs[i],
         arg |-> options, seen |-> seen]]

\* a writeQuery that compares references: cachedData !== data
isDiffByReference(cachedData, result) == cachedData # result

\* const isDiff = !equal(cachedData, data)
isDiff(cachedData, result) == ~equal(cachedData, result)

\* a writeQuery that tells its subscribers only of a change
WriteQueryCallsGated(store, registry, subs, qk, vk, options) ==
    LET cachedData == Lookup2(store.entries, qk, vk)
        persisted  == StoreAfterWrite(store, qk, vk, options.data)
        seen       == getCachedData(persisted, qk, vk)
    IN  IF isDiff(cachedData, options.data)
        THEN WatcherCalls(WatchesSet(registry, qk, vk), options.data, seen)
                \o SubscriberCalls(subs, options, seen)
        ELSE <<>>

\* a writeQuery that notifies before it persists
WriteQueryCallsBeforePersist(store, registry, subs, qk, vk, options) ==
    LET cachedData == Lookup2(store.entries, qk, vk)
        seen       == getCachedData(store, qk, vk)
        notified   == IF isDiff(cachedData, options.data)
                      THEN WatcherCalls(WatchesSet(registry, qk, vk), options.data, seen)
                      ELSE <<>>
    IN  notified \o SubscriberCalls(subs, options, seen)

\* a writeQuery that notifies the watchers of the query under whichever variables
WriteQueryCallsAnyVariables(store, registry, subs, qk, vk, options) ==
    LET cachedData == Lookup2(store.entries, qk, vk)
        persisted  == StoreAfterWrite(store, qk, vk, options.data)
        seen       == getCachedData(persisted, qk, vk)
        level      == IF qk \in DOMAIN registry THEN registry[qk] ELSE <<>>
        other      == IF \E k \in DOMAIN level : k # vk
                      THEN level[CHOOSE k \in DOMAIN level : k # vk] ELSE <<>>
        notified   == IF isDiff(cachedData, options.data)
                      THEN WatcherCalls(WatchesSet(registry, qk, vk) \o other, options.data, seen)
                      ELSE <<>>
    IN  notified \o SubscriberCalls(subs, options, seen)

\* the callbacks one writeQuery call invokes, in order: the result is persisted
\* (super.writeQuery -> this.write), then the watchers of the key when the value
\* differs, then every subscriber
WriteQueryCalls(store, registry, subs, qk, vk, options) ==
    LET cachedData == Lookup2(store.entries, qk, vk)
        persisted  == StoreAfterWrite(store, qk, vk, options.data)
        seen       == getCachedData(persisted, qk, vk)
        notified   == IF isDiff(cachedData, options.data)
                      THEN WatcherCalls(WatchesSet(registry, qk, vk), options.data, seen)
                      ELSE <<>>
    IN  notified \o SubscriberCalls(subs, options, seen)

\* writeQuery(options)
WriteQuery(c, query, variables, result) ==
    LET memo == queryToQueryCacheKeyMap[c]
        qk == makeQueryCacheKey(memo, query)
        vk == makeVariablesCacheKey(variables)
        options == [query |-> query, variables |-> variables, data |-> result]
    IN  /\ heap' = [heap EXCEPT ![data[c]] = StoreAfterWrite(@, qk, vk, result)]
        /\ queryToQueryCacheKeyMap' = [queryToQueryCacheKeyMap EXCEPT ![c] = MemoAfter(memo, query)]
        /\ lastWritten' = Written(c, qk, vk, result)
        /\ log' = Call("writeQuery", c, qk, vk, result,
                       Lookup2(extract(c).entries, qk, vk), EmptyRef,
                       WriteQueryCalls(extract(c), watches[c], operationSubscriptions[c],
                                       qk, vk, options))
        /\ UNCHANGED <<data, watches, operationSubscriptions, watchUnsubs, subUnsubs, subscribed>>

\* What a watcher callback does when it is called with a result: the callback
\* "rewrite" answers a result of content R1 by calling writeQuery with R2 at the
\* query and variables it watches; every other callback calls nothing.
Reaction(w, result) ==
    IF w.callback = "rewrite" /\ result.c = "R1"
    THEN <<[query |-> w.query, variables |-> w.variables, data |-> R2]>>
    ELSE <<>>

\* One writeQuery call with the calls its watcher callbacks make from inside it,
\* all on one stack: st is the store, the memo and the callback invocations so
\* far. WriteQueryRun is the body of writeQuery, NotifyFrom the forEach over the
\* Set of the key from its i-th element on.
RECURSIVE WriteQueryRun(_, _, _, _)
RECURSIVE NotifyFrom(_, _, _, _, _, _, _, _)

WriteQueryRun(st, registry, subs, options) ==
    LET qk == makeQueryCacheKey(st.memo, options.query)
        vk == makeVariablesCacheKey(options.variables)
        cachedData == Lookup2(st.store.entries, qk, vk)
        persisted == [st EXCEPT !.store = StoreAfterWrite(@, qk, vk, options.data),
                                !.memo = MemoAfter(@, options.query)]
        notified == IF isDiff(cachedData, options.data)
                    THEN NotifyFrom(persisted, registry, subs,
                                    WatchesSet(registry, qk, vk), 1, options.data, qk, vk)
                    ELSE persisted
    IN  [notified EXCEPT !.events =
            @ \o SubscriberCalls(subs, options, getCachedData(notified.store, qk, vk))]

NotifyFrom(st, registry, subs, set, i, result, qk, vk) ==
    IF i > Len(set) THEN st
    ELSE LET called == [st EXCEPT !.events =
                           @ \o WatcherCalls(<<set[i]>>, result, getCachedData(st.store, qk, vk))]
             returned == IF Reaction(set[i], result) = <<>>
                         THEN called
                         ELSE WriteQueryRun(called, registry, subs, Reaction(set[i], result)[1])
         IN  NotifyFrom(returned, registry, subs, set, i + 1, result, qk, vk)

\* writeQuery(options), with whatever its callbacks call from inside it
WriteQueryReentrant(c, query, variables, result) ==
    LET memo == queryToQueryCacheKeyMap[c]
        qk == makeQueryCacheKey(memo, query)
        vk == makeVariablesCacheKey(variables)
        options == [query |-> query, variables |-> variables, data |-> result]
        run == WriteQueryRun([store |-> extract(c), memo |-> memo, events |-> <<>>],
                             watches[c], operationSubscriptions[c], options)
    IN  /\ heap' = [heap EXCEPT ![data[c]] = run.store]
        /\ queryToQueryCacheKeyMap' = [queryToQueryCacheKeyMap EXCEPT ![c] = run.memo]
        /\ lastWritten' = Written(c, qk, vk, Lookup2(run.store.entries, qk, vk))
        /\ log' = Call("writeQuery", c, qk, vk, result,
                       Lookup2(extract(c).entries, qk, vk), EmptyRef, run.events)
        /\ UNCHANGED <<data, watches, operationSubscriptions, watchUnsubs, subUnsubs, subscribed>>

\* watch(options): adds the options object to the Set of its key and returns a
\* closure over that Set and that object
Watch(c, w) ==
    LET memo == queryToQueryCacheKeyMap[c]
        qk == makeQueryCacheKey(memo, w.query)
        vk == makeVariablesCacheKey(w.variables)
        watchesSet == WatchesSet(watches[c], qk, vk)
    IN  /\ BagCardinality(watchUnsubs) < MaxHandles
        /\ watches' = [watches EXCEPT ![c] = Assign2(@, qk, vk, SetAdd(watchesSet, w))]
        /\ queryToQueryCacheKeyMap' = [queryToQueryCacheKeyMap EXCEPT ![c] = MemoAfter(memo, w.query)]
        /\ watchUnsubs' = watchUnsubs (+) SetToBag({[cache |-> c, w |-> w]})
        /\ log' = Call("watch", c, qk, vk, w.id, Undefined, Undefined, <<>>)
        /\ UNCHANGED <<heap, data, operationSubscriptions, subUnsubs, subscribed, lastWritten>>

\* the registry after the closure h runs watchesSet.delete(watch) on the Set it
\* captured, the one at the key of its options object
RegistryAfterUnwatch(registry, h) ==
    LET qk == makeQueryCacheKey(<<>>, h.w.query)
        vk == makeVariablesCacheKey(h.w.variables)
    IN  Assign2(registry, qk, vk, SetDelete(WatchesSet(registry, qk, vk), h.w))

\* the unsubscribe function returned by watch, invoked (each one once)
Unwatch(h) ==
    /\ BagIn(h, watchUnsubs)
    /\ watches' = [watches EXCEPT ![h.cache] = RegistryAfterUnwatch(@, h)]
    /\ watchUnsubs' = watchUnsubs (-) SetToBag({h})
    /\ log' = Call("unwatch", h.cache, <<>>, <<>>, h.w.id, Undefined, Undefined, <<>>)
    /\ UNCHANGED <<heap, data, queryToQueryCacheKeyMap, operationSubscriptions,
                   subUnsubs, subscribed, lastWritten>>

\* the closures after reset() of cache c. Those returned by c.watch before captured
\* Sets that the new registry does not hold: invoking them changes nothing any
\* operation reads, and they are kept no longer.
Orphaned(bag, c) ==
    LET kept == {h \in BagToSet(bag) : h.cache # c}
    IN  IF kept = {} THEN EmptyBag ELSE [h \in kept |-> CopiesIn(h, bag)]

\* what cache c holds when a call begins, recorded by the calls that replace it
Held(c) ==
    [data |-> extract(c), watches |-> watches[c], memo |-> queryToQueryCacheKeyMap[c]]

\* a reset that keeps the registry: new store and new memo only
ResetKeepingWatches(c) ==
    /\ data' = [data EXCEPT ![c] = NewRef(c)]
    /\ heap' = HeapNew(c, NewRef(c), makeDocumentCacheObject)
    /\ queryToQueryCacheKeyMap' = [queryToQueryCacheKeyMap EXCEPT ![c] = makeQueryToQueryCacheKeyMap]
    /\ lastWritten' = [lastWritten EXCEPT ![c] = [clean |-> TRUE, at |-> <<>>]]
    /\ log' = Call("reset", c, <<>>, <<>>, Undefined, Held(c), Undefined, <<>>)
    /\ UNCHANGED <<watches, watchUnsubs, operationSubscriptions, subUnsubs, subscribed>>

\* reset(): new store, new registry, new memo
Reset(c) ==
    /\ data' = [data EXCEPT ![c] = NewRef(c)]
    /\ heap' = HeapNew(c, NewRef(c), makeDocumentCacheObject)
    /\ watches' = [watches EXCEPT ![c] = makeDocumentCacheWatches]
    /\ queryToQueryCacheKeyMap' = [queryToQueryCacheKeyMap EXCEPT ![c] = makeQueryToQueryCacheKeyMap]
    /\ watchUnsubs' = Orphaned(watchUnsubs, c)
    /\ lastWritten' = [lastWritten EXCEPT ![c] = [clean |-> TRUE, at |-> <<>>]]
    /\ log' = Call("reset", c, <<>>, <<>>, Undefined, Held(c), Undefined, <<>>)
    /\ UNCHANGED <<operationSubscriptions, subUnsubs, subscribed>>

\* an evict that empties the store and reports it
EvictRemoving(c, options) ==
    /\ heap' = [heap EXCEPT ![data[c]].entries = <<>>]
    /\ log' = Call("evict", c, <<>>, <<>>, options, Undefined, TRUE, <<>>)
    /\ UNCHANGED <<data, watches, queryToQueryCacheKeyMap, operationSubscriptions,
                   watchUnsubs, subUnsubs, subscribed, lastWritten>>

\* evict(options)
Evict(c, options) ==
    /\ log' = Call("evict", c, <<>>, <<>>, options, Undefined, FALSE, <<>>)
    /\ UNCHANGED <<heap, data, watches, queryToQueryCacheKeyMap, operationSubscriptions,
                   watchUnsubs, subUnsubs, subscribed, lastWritten>>

\* a restore that merges the snapshot into the store: {...this.data, ...serializedState}
RestoreExtractedMerging(c, from) ==
    /\ data' = [data EXCEPT ![c] = NewRef(c)]
    /\ heap' = HeapNew(c, NewRef(c),
                       [META |-> extract(from).META,
                        entries |-> extract(from).entries @@ extract(c).entries])
    /\ lastWritten' = [lastWritten EXCEPT ![c] = [clean |-> FALSE, at |-> <<>>]]
    /\ log' = Call("restore", c, <<>>, <<>>, from, extract(c), extract(from), <<>>)
    /\ UNCHANGED <<watches, queryToQueryCacheKeyMap, operationSubscriptions,
                   watchUnsubs, subUnsubs, subscribed>>

\* restore(serializedState) with the object another cache's (or its own) extract()
\* returned: this.data becomes that very object
RestoreExtracted(c, from) ==
    /\ data' = [data EXCEPT ![c] = data[from]]
    /\ heap' = HeapShare(c, data[from])
    /\ lastWritten' = [lastWritten EXCEPT ![c] = [clean |-> FALSE, at |-> <<>>]]
    /\ log' = Call("restore", c, <<>>, <<>>, from, extract(c), extract(from), <<>>)
    /\ UNCHANGED <<watches, queryToQueryCacheKeyMap, operationSubscriptions,
                   watchUnsubs, subUnsubs, subscribed>>

\* a restore of a foreign object that merges it into the store
RestoreSnapshotMerging(c, snapshot) ==
    /\ data' = [data EXCEPT ![c] = NewRef(c)]
    /\ heap' = HeapNew(c, NewRef(c),
                       [META |-> snapshot.META,
                        entries |-> snapshot.entries @@ extract(c).entries])
    /\ lastWritten' = [lastWritten EXCEPT ![c] = [clean |-> FALSE, at |-> <<>>]]
    /\ log' = Call("restore", c, <<>>, <<>>, "", extract(c), snapshot, <<>>)
    /\ UNCHANGED <<watches, queryToQueryCacheKeyMap, operationSubscriptions,
                   watchUnsubs, subUnsubs, subscribed>>

\* a restore of a foreign object that also starts a new registry
RestoreSnapshotResetting(c, snapshot) ==
    /\ data' = [data EXCEPT ![c] = NewRef(c)]
    /\ heap' = HeapNew(c, NewRef(c), snapshot)
    /\ watches' = [watches EXCEPT ![c] = makeDocumentCacheWatches]
    /\ watchUnsubs' = Orphaned(watchUnsubs, c)
    /\ lastWritten' = [lastWritten EXCEPT ![c] = [clean |-> FALSE, at |-> <<>>]]
    /\ log' = Call("restore", c, <<>>, <<>>, "", extract(c), snapshot, <<>>)
    /\ UNCHANGED <<queryToQueryCacheKeyMap, operationSubscriptions, subUnsubs, subscribed>>

\* restore(serializedState) with an object made elsewhere (parsed from a page payload)
RestoreSnapshot(c, snapshot) ==
    /\ data' = [data EXCEPT ![c] = NewRef(c)]
    /\ heap' = HeapNew(c, NewRef(c), snapshot)
    /\ lastWritten' = [lastWritten EXCEPT ![c] = [clean |-> FALSE, at |-> <<>>]]
    /\ log' = Call("restore", c, <<>>, <<>>, "", extract(c), snapshot, <<>>)
    /\ UNCHANGED <<watches, queryToQueryCacheKeyMap, operationSubscriptions,
                   watchUnsubs, subUnsubs, subscribed>>

\* subscribe("writeQuery", callback): pushes the callback and returns a closure over it
Subscribe(c, callback) ==
    /\ Len(operationSubscriptions[c]) < MaxSubs
    /\ BagCardinality(subUnsubs) < MaxSubs
    /\ operationSubscriptions' = [operationSubscriptions EXCEPT ![c] = Append(@, callback)]
    /\ subUnsubs' = subUnsubs (+) SetToBag({[cache |-> c, callback |-> callback]})
    /\ subscribed' = subscribed (+) SetToBag({[cache |-> c, callback |-> callback]})
    /\ log' = Call("subscribe", c, <<>>, <<>>, callback, Undefined, Undefined, <<>>)
    /\ UNCHANGED <<heap, data, watches, queryToQueryCacheKeyMap, watchUnsubs, lastWritten>>

\* an unsubscribe that drops the oldest subscriber, whichever it is
WithoutOldest(subs, callback) == IF subs = <<>> THEN subs ELSE Tail(subs)

\* .filter(cb => cb !== callback)
WithoutCallback(subs, callback) == SelectSeq(subs, LAMBDA cb : cb # callback)

\* a bag without any copy of x
WithoutBagElement(bag, x) ==
    LET kept == BagToSet(bag) \ {x}
    IN  IF kept = {} THEN EmptyBag ELSE [y \in kept |-> CopiesIn(y, bag)]

\* the unsubscribe function returned by subscribe, invoked (each one once)
Unsubscribe(h) ==
    /\ BagIn(h, subUnsubs)
    /\ operationSubscriptions' =
          [operationSubscriptions EXCEPT ![h.cache] = WithoutCallback(@, h.callback)]
    /\ subUnsubs' = subUnsubs (-) SetToBag({h})
    /\ subscribed' = WithoutBagElement(subscribed, h)
    /\ log' = Call("unsubscribe", h.cache, <<>>, <<>>, h.callback,
                   operationSubscriptions[h.cache], Undefined, <<>>)
    /\ UNCHANGED <<heap, data, watches, queryToQueryCacheKeyMap, watchUnsubs, lastWritten>>

-----------------------------------------------------------------------------
(* Inputs *)

\* watch-options objects: W1 and W2 watch the same key through different query
\* and variables objects and share their callback; W3 watches another query
W1 == [id |-> 1, query |-> Q1, variables |-> EmptyMap, callback |-> "cb1"]
W2 == [id |-> 2, query |-> Q2, variables |-> MapAUndef, callback |-> "cb1"]
W3 == [id |-> 3, query |-> Q3, variables |-> EmptyMap, callback |-> "cb2"]

\* a watcher at the key of W1 whose callback writes back into the cache
WR == [id |-> 4, query |-> Q1, variables |-> EmptyMap, callback |-> "rewrite"]

\* Cache.EvictOptions: a whole object, or one field of an object
EvictOptions ==
    { [id |-> "ROOT_QUERY", fieldName |-> ""], [id |-> "Job:1", fieldName |-> "title"] }

\* snapshots made elsewhere: `{}` (src/lib/apollo.ts:15), an InMemoryCache
\* extract (its __META has no type), and a parsed DocumentCache extract
SnapshotEmpty    == [META |-> MetaAbsent, entries |-> <<>>]
SnapshotInMemory == [META |-> MetaInMemory, entries |-> <<>>]
SnapshotParsed   ==
    [META |-> MetaDocumentCache,
     entries |-> Assign2(<<>>, Sha256Hex(transformDocument(Q3)),
                         makeVariablesCacheKey(EmptyMap), R2)]

-----------------------------------------------------------------------------
(* Spec: one cache, every operation on its store, registry and memo *)

\* write requests: two references of one query, absent and empty variables,
\* object results and null
Calls ==
    { <<Q1, EmptyMap, R1a>>, <<Q2, MapAUndef, R2>>, <<Q1, EmptyMap, Null>>,
      <<Q1, NoVariables, R1b>>, <<Q2, NoVariables, Null>> }
Sites == {<<c[1], c[2]>> : c \in Calls}
Snapshots == {SnapshotEmpty, SnapshotInMemory, SnapshotParsed}

Next ==
    \/ \E s \in Sites : Read("A", s[1], s[2])
    \/ \E s \in Sites : Diff("A", s[1], s[2])
    \/ \E c \in Calls : Write("A", c[1], c[2], c[3])
    \/ \E c \in Calls : WriteQuery("A", c[1], c[2], c[3])
    \/ Watch("A", W1)
    \/ \E h \in BagToSet(watchUnsubs) : Unwatch(h)
    \/ Reset("A")
    \/ \E o \in EvictOptions : Evict("A", o)
    \/ RestoreExtracted("A", "A")
    \/ \E x \in Snapshots : RestoreSnapshot("A", x)

Spec == Init /\ [][Next]_vars

-----------------------------------------------------------------------------
(* SpecWatch: one cache, its watchers *)

WatchCalls ==
    { <<Q1, EmptyMap, R1a>>, <<Q2, MapAUndef, R1b>>, <<Q1, EmptyMap, R2>>,
      <<Q3, EmptyMap, R1a>>, <<Q3, EmptyMap, R2>>, <<Q1, NoVariables, R1a>> }
Watchers == {W1, W2, W3}

NextWatch ==
    \/ \E c \in WatchCalls : Write("A", c[1], c[2], c[3])
    \/ \E c \in WatchCalls : WriteQuery("A", c[1], c[2], c[3])
    \/ \E w \in Watchers : Watch("A", w)
    \/ \E h \in BagToSet(watchUnsubs) : Unwatch(h)
    \/ Reset("A")

SpecWatch == Init /\ [][NextWatch]_vars

-----------------------------------------------------------------------------
(* SpecBus: one cache, its operation subscribers *)

BusCalls ==
    { <<Q1, EmptyMap, R1a>>, <<Q1, EmptyMap, R1b>>, <<Q1, EmptyMap, R2>>,
      <<Q3, EmptyMap, R1a>> }
Subscribers == {"s1", "s2"}

NextBus ==
    \/ \E c \in BusCalls : Write("A", c[1], c[2], c[3])
    \/ \E c \in BusCalls : WriteQuery("A", c[1], c[2], c[3])
    \/ \E cb \in Subscribers : Subscribe("A", cb)
    \/ \E h \in BagToSet(subUnsubs) : Unsubscribe(h)
    \/ Watch("A", W1)
    \/ Reset("A")
    \/ \E o \in EvictOptions : Evict("A", o)
    \/ RestoreSnapshot("A", SnapshotParsed)

SpecBus == Init /\ [][NextBus]_vars

-----------------------------------------------------------------------------
(* SpecTwo: two caches and the snapshots they hand each other *)

TwoCalls == { <<Q1, EmptyMap, R1a>>, <<Q3, NoVariables, R2>> }
TwoSites == {<<c[1], c[2]>> : c \in TwoCalls}

NextTwo ==
    \/ \E k \in Caches, s \in TwoSites : Read(k, s[1], s[2])
    \/ \E k \in Caches, c \in TwoCalls : Write(k, c[1], c[2], c[3])
    \/ \E k \in Caches, c \in TwoCalls : WriteQuery(k, c[1], c[2], c[3])
    \/ \E k \in Caches : Reset(k)
    \/ \E k, from \in Caches : RestoreExtracted(k, from)
    \/ \E k \in Caches : RestoreSnapshot(k, SnapshotParsed)

SpecTwo == Init /\ [][NextTwo]_vars

-----------------------------------------------------------------------------
(* SpecLife: one cache, the life of its watch registrations under every
   operation that could end it *)

LifeCalls == { <<Q1, EmptyMap, R1a>>, <<Q1, EmptyMap, R2>>, <<Q3, EmptyMap, R2>> }

NextLife ==
    \/ \E c \in LifeCalls : Write("A", c[1], c[2], c[3])
    \/ \E c \in LifeCalls : WriteQuery("A", c[1], c[2], c[3])
    \/ \E w \in Watchers : Watch("A", w)
    \/ \E h \in BagToSet(watchUnsubs) : Unwatch(h)
    \/ Reset("A")
    \/ RestoreSnapshot("A", SnapshotParsed)
    \/ \E o \in EvictOptions : Evict("A", o)

SpecLife == Init /\ [][NextLife]_vars

-----------------------------------------------------------------------------
(* SpecOrder: one cache, three subscribers and the order they are called in *)

OrderCalls == { <<Q1, EmptyMap, R1a>>, <<Q1, EmptyMap, R2>> }
OrderSubscribers == {"s1", "s2", "s3"}

NextOrder ==
    \/ \E c \in OrderCalls : WriteQuery("A", c[1], c[2], c[3])
    \/ \E cb \in OrderSubscribers : Subscribe("A", cb)
    \/ \E h \in BagToSet(subUnsubs) : Unsubscribe(h)

SpecOrder == Init /\ [][NextOrder]_vars

-----------------------------------------------------------------------------
(* SpecReentrant: one cache, watchers of which one calls writeQuery from its
   callback *)

ReentrantCalls ==
    { <<Q1, EmptyMap, R1a>>, <<Q1, EmptyMap, R2>>, <<Q1, EmptyMap, Null>>,
      <<Q3, EmptyMap, R1b>> }
ReentrantWatchers == {W1, WR, W3}

NextReentrant ==
    \/ \E c \in ReentrantCalls : WriteQueryReentrant("A", c[1], c[2], c[3])
    \/ \E w \in ReentrantWatchers : Watch("A", w)
    \/ \E h \in BagToSet(watchUnsubs) : Unwatch(h)
    \/ Subscribe("A", "s1")
    \/ \E h \in BagToSet(subUnsubs) : Unsubscribe(h)
    \/ Reset("A")

SpecReentrant == Init /\ [][NextReentrant]_vars

-----------------------------------------------------------------------------
(* Claims *)

\* the key of a request, computed afresh
KeyOfQuery(query) == Sha256Hex(transformDocument(query))

\* C1: all-or-nothing read. In a cache not restored since its construction or
\* last reset, a (query, variables) pair never written reads as absent (null)
\* and diffs as incomplete; a pair written reads as exactly the last result
\* written there, whatever that result, and diffs as complete with it.
C1_AllOrNothingRead ==
    lastWritten["A"].clean =>
        \A s \in Sites :
            LET qk == KeyOfQuery(s[1])
                vk == makeVariablesCacheKey(s[2])
                at == lastWritten["A"].at
                got == read(extract("A"), queryToQueryCacheKeyMap["A"], s[1], s[2])
                d == diff(extract("A"), queryToQueryCacheKeyMap["A"], s[1], s[2])
            IN  IF qk \in DOMAIN at /\ vk \in DOMAIN at[qk]
                THEN got = at[qk][vk] /\ d.complete /\ d.result = at[qk][vk]
                ELSE got = Null /\ ~d.complete

\* the calls of a sequence of callback invocations made for watch-options object w
WatchCallsTo(events, w) ==
    {i \in 1..Len(events) : events[i].kind = "watch" /\ events[i].target = w.id}

\* C2: change-gated notification. A writeQuery call at key K invokes every
\* watcher registered at K exactly once, with the new result marked complete,
\* when the new result is not deep-equal to the result last written at K (or
\* none was), and does not invoke it when the two are deep-equal.
C2_ChangeGatedNotification ==
    [][log'.op = "writeQuery" =>
        LET c == log'.cache
            qk == log'.queryCacheKey
            vk == log'.variablesCacheKey
            before == Lookup2(lastWritten[c].at, qk, vk)
            differs == before.c # log'.arg.c
            registered == WatchesSet(watches[c], qk, vk)
        IN  \A i \in 1..Len(registered) :
                LET calls == WatchCallsTo(log'.events, registered[i])
                IN  /\ Cardinality(calls) = IF differs THEN 1 ELSE 0
                    /\ \A j \in calls :
                          log'.events[j].arg = [result |-> log'.arg, complete |-> TRUE]
    ]_vars

\* C2 happens: two watchers are registered at a key holding R1, and a writeQuery
\* of R2 there has called both
C2_Witness ==
    /\ log.op = "writeQuery"
    /\ log.prev.c = "R1" /\ log.arg = R2
    /\ Len(WatchesSet(watches["A"], log.queryCacheKey, log.variablesCacheKey)) = 2
    /\ Len(log.events) = 2

\* the calls of a sequence of callback invocations made to subscriber callback cb
SubscriberCallsTo(events, cb) ==
    {i \in 1..Len(events) : events[i].kind = "sub" /\ events[i].callback = cb}

\* C3, as claimed: while a subscription is alive (subscribe has returned, its own
\* unsubscribe function has not been called), every writeQuery call invokes its
\* callback exactly once.
C3_OncePerLiveSubscription ==
    log.op = "writeQuery" =>
        \A h \in BagToSet(subUnsubs) :
            h.cache = log.cache =>
                Cardinality(SubscriberCallsTo(log.events, h.callback)) = 1

\* C3, amended: every writeQuery call, at any key, whether or not the value
\* changed and whatever reset, restore, evict or watch came before, invokes a
\* callback with the write request once for each subscribe call made with it
\* since an unsubscribe function returned for that callback last ran.
C3_OncePerSubscribeCall ==
    log.op = "writeQuery" =>
        \A cb \in Subscribers :
            LET calls == SubscriberCallsTo(log.events, cb)
            IN  /\ Cardinality(calls) = CopiesIn([cache |-> log.cache, callback |-> cb], subscribed)
                /\ \A j \in calls :
                      /\ log.events[j].arg.data = log.arg
                      /\ KeyOfQuery(log.events[j].arg.query) = log.queryCacheKey
                      /\ makeVariablesCacheKey(log.events[j].arg.variables) = log.variablesCacheKey

\* C3 happens: a writeQuery of a result deep-equal to the stored one has called
\* the one subscription of s1, while s2 is subscribed too
C3_Witness ==
    /\ log.op = "writeQuery"
    /\ log.prev.c = log.arg.c
    /\ operationSubscriptions["A"] = <<"s2", "s1">>
    /\ Cardinality(SubscriberCallsTo(log.events, "s1")) = 1

Registered(registry, w) ==
    InSet(WatchesSet(registry, KeyOfQuery(w.query), makeVariablesCacheKey(w.variables)), w)

C5_ExactKeyNotification ==
    log.op = "writeQuery" =>
        \A i \in 1..Len(log.events) :
            log.events[i].kind = "watch" =>
                \E w \in Watchers :
                    /\ w.id = log.events[i].target
                    /\ KeyOfQuery(w.query) = log.queryCacheKey
                    /\ makeVariablesCacheKey(w.variables) = log.variablesCacheKey

\* C5 happens: with W1 registered at (Q1, {}), a changing writeQuery at the same
\* query without variables has called nobody
C5_Witness ==
    /\ log.op = "writeQuery"
    /\ log.queryCacheKey = KeyOfQuery(Q1)
    /\ log.variablesCacheKey = makeVariablesCacheKey(NoVariables)
    /\ log.prev.c # log.arg.c
    /\ Registered(watches["A"], W1) /\ Registered(watches["A"], W3)
    /\ log.events = <<>>

\* C6: ordering inside one writeQuery call. Every callback of the call runs with
\* the new result already stored at the key, and no subscriber is called before
\* a watcher of the call.
C6_PersistThenWatchersThenSubscribers ==
    log.op = "writeQuery" =>
        /\ \A i \in 1..Len(log.events) : log.events[i].seen = log.arg
        /\ \A i, j \in 1..Len(log.events) :
              (i < j) => ~(log.events[i].kind = "sub" /\ log.events[j].kind = "watch")

\* C6 happens: a writeQuery has called a watcher and a subscriber
C6_Witness ==
    /\ log.op = "writeQuery"
    /\ \E i, j \in 1..Len(log.events) :
          log.events[i].kind = "watch" /\ log.events[j].kind = "sub"

\* C7: raw write is silent. A write call stores its result at its key, leaves
\* every other entry, the Watch Registry and the subscriber sequence as they
\* were, and invokes no callback, whether or not the value differs.
C7_RawWriteSilent ==
    [][log'.op = "write" =>
        LET c == log'.cache
        IN  /\ log'.events = <<>>
            /\ watches' = watches
            /\ operationSubscriptions' = operationSubscriptions
            /\ Lookup2(heap'[data'[c]].entries, log'.queryCacheKey, log'.variablesCacheKey) = log'.arg
            /\ \A b \in BusCalls :
                  LET qk == KeyOfQuery(b[1])
                      vk == makeVariablesCacheKey(b[2])
                  IN  <<qk, vk>> # <<log'.queryCacheKey, log'.variablesCacheKey>> =>
                          Lookup2(heap'[data'[c]].entries, qk, vk)
                              = Lookup2(heap[data[c]].entries, qk, vk)
    ]_vars

\* C7 happens: a write has changed the value at a key that has a watcher, with a
\* subscriber present, and called nobody
C7_Witness ==
    /\ log.op = "write"
    /\ log.prev.c = "R1" /\ log.arg = R2
    /\ WatchesSet(watches["A"], log.queryCacheKey, log.variablesCacheKey) = <<W1>>
    /\ operationSubscriptions["A"] # <<>>
    /\ log.events = <<>>

\* whether a store has an entry at the key of a request
HasEntry(store, query, variables) ==
    /\ KeyOfQuery(query) \in DOMAIN store.entries
    /\ makeVariablesCacheKey(variables) \in DOMAIN store.entries[KeyOfQuery(query)]

\* C8: snapshot round trip. Restoring what extract() of a cache returns, into
\* that cache or into another, leaves a store that reads, at every key, what the
\* extracted cache read before: the same result where it had one, absent
\* where it had none.
C8_SnapshotRoundTrip ==
    [][(log'.op = "restore" /\ log'.arg \in Caches) =>
        LET c == log'.cache
            from == log'.arg
        IN  \A s \in TwoSites :
                /\ read(heap'[data'[c]], queryToQueryCacheKeyMap'[c], s[1], s[2])
                      = read(heap[data[from]], queryToQueryCacheKeyMap[from], s[1], s[2])
                /\ HasEntry(heap'[data'[c]], s[1], s[2]) = HasEntry(heap[data[from]], s[1], s[2])
    ]_vars

\* C8 happens: B, holding an entry that A lacks, has restored A's non-empty extract
C8_Witness ==
    /\ log.op = "restore" /\ log.cache = "B" /\ log.arg = "A"
    /\ log.ret.entries # <<>>
    /\ \E s \in TwoSites : HasEntry(log.prev, s[1], s[2]) /\ ~HasEntry(log.ret, s[1], s[2])

\* the requests C9 reads back: those of Spec and the one SnapshotParsed holds
RestoreSites == Sites \cup {<<Q3, EmptyMap>>}

\* C9: restore replaces wholesale. After restore(S) the store holds the entries
\* of S and no other: read returns S's entry where S has one, absent elsewhere.
C9_RestoreReplacesWholesale ==
    log.op = "restore" =>
        LET c == log.cache
            S == log.ret
        IN  /\ extract(c).entries = S.entries
            /\ \A s \in RestoreSites :
                  read(extract(c), queryToQueryCacheKeyMap[c], s[1], s[2])
                      = IF HasEntry(S, s[1], s[2])
                        THEN S.entries[KeyOfQuery(s[1])][makeVariablesCacheKey(s[2])]
                        ELSE Null

\* C9 happens: a cache holding an entry that the snapshot lacks has restored a
\* snapshot holding another entry
C9_Witness ==
    /\ log.op = "restore" /\ log.ret = SnapshotParsed
    /\ HasEntry(log.prev, Q1, EmptyMap)
    /\ read(extract("A"), queryToQueryCacheKeyMap["A"], Q1, EmptyMap) = Null
    /\ read(extract("A"), queryToQueryCacheKeyMap["A"], Q3, EmptyMap) = R2

\* C10: variant metadata tag. In every reachable state what extract returns
\* carries the __META record tagged "DocumentCache".
C10_ExtractIsTagged == isDocumentCache(extract("A"))

\* C11: reset clears everything. A reset step leaves a cache in which every
\* request reads as absent and diffs as incomplete, extract returns the
\* metadata record and no entry, the query-hash memo is empty and the
\* registry is empty; an options object enters the registry only by a watch
\* call made with it, and a writeQuery calls only options objects that are in
\* the registry when it is made: so one registered before a reset is called by
\* no writeQuery after it, unless it is registered again.
C11_ResetClearsEverything ==
    [][/\ log'.op = "reset" =>
            LET c == log'.cache
                store == heap'[data'[c]]
                memo == queryToQueryCacheKeyMap'[c]
            IN  /\ \A s \in RestoreSites :
                      /\ read(store, memo, s[1], s[2]) = Null
                      /\ ~diff(store, memo, s[1], s[2]).complete
                /\ store.entries = <<>> /\ isDocumentCache(store)
                /\ memo = <<>>
                /\ watches'[c] = <<>>
       /\ \A w \in Watchers :
            (Registered(watches'["A"], w) /\ ~Registered(watches["A"], w)) =>
                (log'.op = "watch" /\ log'.arg = w.id)
       /\ log'.op = "writeQuery" =>
            \A i \in 1..Len(log'.events) :
                log'.events[i].kind = "watch" =>
                    \E w \in Watchers :
                        w.id = log'.events[i].target /\ Registered(watches["A"], w)
    ]_vars

\* C11 happens: a cache with an entry, a watcher and a memoized hash has been
\* reset
C11_Witness ==
    /\ log.op = "reset"
    /\ log.prev.data.entries # <<>>
    /\ Registered(log.prev.watches, W1)
    /\ log.prev.memo # <<>>
    /\ extract("A") = makeDocumentCacheObject
    /\ watches["A"] = <<>>

\* C12, as claimed: a registration leaves the registry only by an unsubscribe
\* function returned for it by watch; write, writeQuery, reset, restore and
\* evict never remove it, and while it is there every changing writeQuery at
\* its key calls it.
C12_RemovedOnlyByUnsubscribe ==
    [][/\ \A w \in Watchers :
            (Registered(watches["A"], w) /\ ~Registered(watches'["A"], w)) =>
                (log'.op = "unwatch" /\ log'.arg = w.id)
       /\ (log'.op = "writeQuery" /\ isDiff(log'.prev, log'.arg)) =>
            \A w \in Watchers :
                (/\ Registered(watches["A"], w)
                 /\ KeyOfQuery(w.query) = log'.queryCacheKey
                 /\ makeVariablesCacheKey(w.variables) = log'.variablesCacheKey)
                    => WatchCallsTo(log'.events, w) # {}
    ]_vars

\* C12, amended: a registration leaves the registry only by an unsubscribe
\* function returned by watch for its options object, or by reset, which drops
\* every registration of the cache; write, writeQuery, restore and evict never
\* remove it, and while it is there every changing writeQuery at its key calls it.
C12_RemovedByUnsubscribeOrReset ==
    [][/\ \A w \in Watchers :
            (Registered(watches["A"], w) /\ ~Registered(watches'["A"], w)) =>
                \/ log'.op = "unwatch" /\ log'.arg = w.id
                \/ log'.op = "reset"
       /\ log'.op \in {"write", "writeQuery", "restore", "evict", "watch"} =>
            \A w \in Watchers : Registered(watches["A"], w) => Registered(watches'["A"], w)
       /\ (log'.op = "writeQuery" /\ isDiff(log'.prev, log'.arg)) =>
            \A w \in Watchers :
                (/\ Registered(watches["A"], w)
                 /\ KeyOfQuery(w.query) = log'.queryCacheKey
                 /\ makeVariablesCacheKey(w.variables) = log'.variablesCacheKey)
                    => WatchCallsTo(log'.events, w) # {}
    ]_vars

\* C12 happens: two registrations whose unsubscribe functions were never
\* invoked have been dropped by a reset
C12_Witness ==
    /\ log.op = "reset"
    /\ Registered(log.prev.watches, W1) /\ Registered(log.prev.watches, W3)
    /\ ~Registered(watches["A"], W1) /\ ~Registered(watches["A"], W3)

\* C13: hash stability independent of the memo. Every memo entry is the digest
\* of the normalized content of its query; two query objects that are equal
\* after normalization get one key, the same whether it is served from the
\* memo or computed (as after a reset emptied the memo), and read the same
\* entry; what a write or writeQuery stores through one of them is what a read
\* through the other returns.
C13_HashStability ==
    LET memo == queryToQueryCacheKeyMap["A"]
        store == extract("A")
    IN  /\ \A q \in DOMAIN memo : memo[q] = KeyOfQuery(q)
        /\ \A q1, q2 \in Queries :
              transformDocument(q1) = transformDocument(q2) =>
                 /\ makeQueryCacheKey(memo, q1) = makeQueryCacheKey(memo, q2)
                 /\ makeQueryCacheKey(memo, q1) = makeQueryCacheKey(<<>>, q1)
                 /\ \A s \in Sites :
                       read(store, memo, q1, s[2]) = read(store, memo, q2, s[2])
        /\ log.op \in {"write", "writeQuery"} =>
              \A q \in Queries, s \in Sites :
                 (/\ KeyOfQuery(q) = log.queryCacheKey
                  /\ makeVariablesCacheKey(s[2]) = log.variablesCacheKey)
                     => read(store, memo, q, s[2]) = log.arg

\* C13 happens: R2 was written through Q2, the memo holds Q2 and not Q1, and a
\* read through Q1 returns R2
C13_Witness ==
    /\ log.op = "write" /\ log.arg = R2
    /\ DOMAIN queryToQueryCacheKeyMap["A"] = {Q2}
    /\ read(extract("A"), queryToQueryCacheKeyMap["A"], Q1, EmptyMap) = R2

\* C14: absent variables map to the empty-map key. A request made without
\* variables and the same request made with the variables map {} address one
\* entry: at every query both read the same result and diff alike.
C14_AbsentVariablesAreEmptyMap ==
    \A q \in Queries :
        LET memo == queryToQueryCacheKeyMap["A"]
        IN  /\ read(extract("A"), memo, q, NoVariables) = read(extract("A"), memo, q, EmptyMap)
            /\ diff(extract("A"), memo, q, NoVariables) = diff(extract("A"), memo, q, EmptyMap)

\* C15: exclusive ownership of the Document Store. A write or writeQuery on
\* one cache leaves what every other cache extracts and reads as it was, also
\* when the other cache restored what the first one's extract returned.
C15_ExclusiveOwnership ==
    [][log'.op \in {"write", "writeQuery"} =>
        \A d \in Caches \ {log'.cache} :
            /\ heap'[data'[d]] = heap[data[d]]
            /\ \A s \in TwoSites :
                  read(heap'[data'[d]], queryToQueryCacheKeyMap'[d], s[1], s[2])
                      = read(heap[data[d]], queryToQueryCacheKeyMap[d], s[1], s[2])
    ]_vars

\* the positions of a sequence that hold something else than x
Others(seq, x) == {i \in 1..Len(seq) : seq[i] # x}

\* C16: operation-bus unsubscribe exactness. The unsubscribe function returned
\* by subscribe for cb leaves a subscriber sequence without cb that holds every
\* other entry of the sequence before, as many times and in the same relative
\* order; and every writeQuery calls the subscribers in the order of the
\* sequence as it stands.
C16_UnsubscribeRemovesOnlyCallback ==
    [][/\ log'.op = "unsubscribe" =>
            LET cb == log'.arg
                before == operationSubscriptions[log'.cache]
                after == operationSubscriptions'[log'.cache]
            IN  /\ Others(after, cb) = 1..Len(after)
                /\ Len(after) = Cardinality(Others(before, cb))
                /\ \E f \in [1..Len(after) -> Others(before, cb)] :
                      /\ \A i, j \in 1..Len(after) : (i < j) => (f[i] < f[j])
                      /\ \A i \in 1..Len(after) : after[i] = before[f[i]]
       /\ log'.op = "writeQuery" =>
            LET called == SelectSeq(log'.events, LAMBDA e : e.kind = "sub")
            IN  [i \in 1..Len(called) |-> called[i].callback]
                    = operationSubscriptions[log'.cache]
    ]_vars

\* C16 happens: s2, subscribed between s3 and s1, has been unsubscribed, and
\* s3 and s1 are left in that order
C16_Witness ==
    /\ log.op = "unsubscribe" /\ log.arg = "s2"
    /\ log.prev = <<"s3", "s2", "s1">>
    /\ operationSubscriptions["A"] = <<"s3", "s1">>

\* C17: eviction no-op. Every evict call, whatever the eviction options and
\* the state, returns false, invokes no callback, and leaves the store, the
\* registry, the query-hash memo and the operation subscriptions as they were.
C17_EvictNoOp ==
    [][log'.op = "evict" =>
        /\ log'.ret = FALSE
        /\ log'.events = <<>>
        /\ heap' = heap /\ data' = data
        /\ watches' = watches
        /\ queryToQueryCacheKeyMap' = queryToQueryCacheKeyMap
        /\ operationSubscriptions' = operationSubscriptions
    ]_vars

\* C17 happens: evict of a field was called on a cache that has an entry, a
\* watcher, a memoized hash and a subscriber
C17_Witness ==
    /\ log.op = "evict" /\ log.arg.fieldName = "title" /\ log.ret = FALSE
    /\ extract("A").entries # <<>>
    /\ Registered(watches["A"], W1)
    /\ queryToQueryCacheKeyMap["A"] # <<>>
    /\ operationSubscriptions["A"] # <<>>

\* the last of a non-empty set of positions
Last(positions) == CHOOSE i \in positions : \A j \in positions : j <= i

\* C18: watchers converge on the stored value under reentrancy. When a
\* writeQuery call at key K has returned, callbacks that called writeQuery at K
\* from inside it included, the result most recently delivered to each watcher
\* registered at K that the call invoked is deep-equal to the value stored at K.
C18_WatchersConverge ==
    log.op = "writeQuery" =>
        LET set == WatchesSet(watches[log.cache], log.queryCacheKey, log.variablesCacheKey)
            stored == Lookup2(extract(log.cache).entries, log.queryCacheKey, log.variablesCacheKey)
        IN  \A k \in 1..Len(set) :
                WatchCallsTo(log.events, set[k]) # {} =>
                    equal(log.events[Last(WatchCallsTo(log.events, set[k]))].arg.result, stored)

====
